---- MODULE Spec2Model ----
(***************************************************************************)
(* The generic Merkle-Damgard hash engine of src/lib/hash/mdx_hash/        *)
(* mdx_hash.h (MerkleDamgard_Hash<MD>): update, final, clear, and the      *)
(* private padding steps, over an AlignmentBuffer and a pluggable          *)
(* compression capability MD; and the start/stop pairing of the Timer of   *)
(* src/cli/timer.cpp.                                                      *)
(*                                                                         *)
(* size_t and uint64_t values are kept at their width: a 64-bit quantity   *)
(* is a tuple of four 16-bit limbs, least significant first, and every     *)
(* operation on it is carried out limb by limb, dropping the carry out of  *)
(* the top limb (the wrap of unsigned arithmetic in C++).                  *)
(***************************************************************************)
EXTENDS Integers, Sequences, FiniteSets, TLC

VARIABLES MD, pat, eng, aux, ret, timer, thist

vars == <<MD, pat, eng, aux, ret, timer, thist>>

(***************************************************************************)
(* Bounds of the model.                                                    *)
(***************************************************************************)
\* An instance absorbs at most MaxBlocks * block_bytes + 1 explicit bytes
\* between two resets.
MaxBlocks == 2

\* At most MaxFail calls of final with an undersized output between two resets.
MaxFail == 1

\* The period of the position-dependent input pattern "idx".
Period == 251

\* The timestamps the system clock gives are 0..MaxClock, the values of the
\* cycle counter 0..MaxCycles.
MaxClock == 3

MaxCycles == 2

\* A timer is driven until it has counted MaxEvents events.
MaxEvents == 3

(***************************************************************************)
(* 64-bit unsigned arithmetic on limbs.                                    *)
(***************************************************************************)
Base == 2^16

Zero64 == <<0, 0, 0, 0>>

\* The limbs of a small natural number (below 2^31).
U64(n) == <<n % Base, (n \div Base) % Base, 0, 0>>

RECURSIVE AddLimbs(_, _, _, _)
AddLimbs(a, b, i, c) ==
    IF i > Len(a) THEN <<>>
    ELSE LET s == a[i] + b[i] + c
         IN  <<s % Base>> \o AddLimbs(a, b, i + 1, s \div Base)

\* a + b in the width of a (the carry out of the top limb is dropped).
LimbAdd(a, b) == AddLimbs(a, b, 1, 0)

RECURSIVE SubLimbs(_, _, _, _)
SubLimbs(a, b, i, br) ==
    IF i > Len(a) THEN <<>>
    ELSE LET d == a[i] - b[i] - br
         IN  <<(d + Base) % Base>> \o SubLimbs(a, b, i + 1, IF d < 0 THEN 1 ELSE 0)

\* a - b in the width of a (wraps when b > a).
LimbSub(a, b) == SubLimbs(a, b, 1, 0)

RECURSIVE MulLimbs(_, _, _, _)
MulLimbs(a, k, i, c) ==
    IF i > Len(a) THEN <<>>
    ELSE LET s == a[i] * k + c
         IN  <<s % Base>> \o MulLimbs(a, k, i + 1, s \div Base)

\* a * k in the width of a, for a small factor k (at most 2^14).
LimbMul(a, k) == MulLimbs(a, k, 1, 0)

RECURSIVE DivLimbs(_, _, _, _)
DivLimbs(a, d, i, r) ==
    IF i = 0 THEN <<>>
    ELSE LET cur == r * Base + a[i]
         IN  DivLimbs(a, d, i - 1, cur % d) \o <<cur \div d>>

\* floor(a / d) for a small divisor d (at most 2^14).
LimbDiv(a, d) == DivLimbs(a, d, Len(a), 0)

RECURSIVE ModLimbs(_, _, _, _)
ModLimbs(a, d, i, r) ==
    IF i = 0 THEN r ELSE ModLimbs(a, d, i - 1, (r * Base + a[i]) % d)

\* a mod d for a small divisor d.
LimbMod(a, d) == ModLimbs(a, d, Len(a), 0)

RECURSIVE LessLimbs(_, _, _)
LessLimbs(a, b, i) ==
    IF i = 0 THEN FALSE
    ELSE IF a[i] # b[i] THEN a[i] < b[i]
    ELSE LessLimbs(a, b, i - 1)

\* a < b.
LimbLess(a, b) == LessLimbs(a, b, Len(a))

LimbIsZero(a) == \A i \in 1..Len(a) : a[i] = 0

\* The value of a count known to be below 2^31.
ToNat(a) == a[1] + a[2] * Base

\* std::min(n, a) for a small natural n and a 64-bit a: always small.
MinNat(n, a) == IF LimbLess(a, U64(n)) THEN ToNat(a) ELSE n

(***************************************************************************)
(* The compression capability MD: the layout constants and a recording     *)
(* stub for init/compress_n.                                               *)
(***************************************************************************)
is_power_of_2(n) == \E k \in 0..14 : n = 2^k

\* md_hash_implementation without T::ctr_bytes >= 8 (line 36).
md_hash_implementation_any_ctr(T) ==
    /\ T.block_bytes >= 64
    /\ is_power_of_2(T.block_bytes)
    /\ T.output_bytes >= 16
    /\ is_power_of_2(T.ctr_bytes)
    /\ T.ctr_bytes < T.block_bytes

\* The constraints of the concept md_hash_implementation on the constants.
md_hash_implementation(T) ==
    /\ T.block_bytes >= 64
    /\ is_power_of_2(T.block_bytes)
    /\ T.output_bytes >= 16
    /\ T.ctr_bytes >= 8
    /\ is_power_of_2(T.ctr_bytes)
    /\ T.ctr_bytes < T.block_bytes

MD_Endian == {"Little", "Big"}

\* Candidate parameter sets; the concept rejects some of them.
Candidates(kinds) ==
    [block_bytes : {32, 64, 96, 128}, ctr_bytes : {4, 8, 16, 24, 64, 128},
     output_bytes : {16}, bit_endianness : MD_Endian,
     byte_endianness : MD_Endian, kind : kinds]

\* The parameter sets a MerkleDamgard_Hash can be instantiated with.
\* kind "record": the digest state is every byte compress_n was given, in
\* order; kind "last": the digest state is the last block it was given.
Implementations(kinds) == {T \in Candidates(kinds) : md_hash_implementation(T)}

(***************************************************************************)
(* Input bytes.  The byte at position j of the stream of an instance       *)
(* (counted from its last reset) is ByteAt(j mod Period); an input span is *)
(* a start phase and a 64-bit length.                                      *)
(***************************************************************************)
\* pat = "idx": the bytes tell their position; "hi": all 0x80; "zero": all 0.
ByteAt(j) ==
    CASE pat = "idx"  -> j
      [] pat = "hi"   -> 128
      [] pat = "zero" -> 0

\* std::span<const uint8_t> over the input stream.
InputSpan(phase, len) == [src |-> "input", phase |-> phase, len |-> len]

\* std::span over the bytes of the alignment buffer.
BufferSpan(bytes) == [src |-> "buffer", bytes |-> bytes]

SpanBytes(data) ==
    IF data.src = "buffer" THEN data.bytes
    ELSE [i \in 1..ToNat(data.len) |-> ByteAt((data.phase + i - 1) % Period)]

\* The first n bytes of a span (n a 64-bit count).
SpanFirst(data, n) ==
    IF data.src = "buffer" THEN BufferSpan(SubSeq(data.bytes, 1, ToNat(n)))
    ELSE InputSpan(data.phase, n)

\* The block_bytes bytes of a span that start nskip bytes in.
SpanBlockAt(data, nskip, bb) ==
    IF data.src = "buffer"
    THEN SubSeq(data.bytes, ToNat(nskip) + 1, ToNat(nskip) + bb)
    ELSE [i \in 1..bb |->
            ByteAt((data.phase + LimbMod(nskip, Period) + i - 1) % Period)]

\* MD::init(digest)
MD_init(md) == <<>>

\* MD::compress_n(digest, input, blocks): consumes blocks * block_bytes bytes.
MD_compress_n(md, digest, input, blocks) ==
    IF md.kind = "record"
    THEN digest \o SpanBytes(SpanFirst(input, LimbMul(blocks, md.block_bytes)))
    ELSE SpanBlockAt(input, LimbMul(LimbSub(blocks, U64(1)), md.block_bytes),
                     md.block_bytes)

(***************************************************************************)
(* BufferSlicer: a cursor over an input span.                              *)
(***************************************************************************)
BufferSlicer(input) == [phase |-> input.phase, rem |-> input.len]

slicer_empty(in) == LimbIsZero(in.rem)

\* The span take(n) returns, and the slicer after it.
slicer_take(in, n) == InputSpan(in.phase, n)

slicer_after(in, n) ==
    [phase |-> (in.phase + LimbMod(n, Period)) % Period, rem |-> LimbSub(in.rem, n)]

(***************************************************************************)
(* AlignmentBuffer<uint8_t, block_bytes>: the value of a buffer is the     *)
(* sequence of its filled bytes (its length is the cursor).                *)
(***************************************************************************)
NoBlock == [has |-> FALSE, value |-> <<>>]

in_alignment(buf) == Len(buf) = 0

ready_to_consume(bb, buf) == Len(buf) = bb

elements_until_alignment(bb, buf) == bb - Len(buf)

buffer_append(buf, bytes) == buf \o bytes

fill_up_with_zeros(bb, buf) == buf \o [i \in 1..(bb - Len(buf)) |-> 0]

\* The buffer with its last Len(bytes) bytes overwritten.
directly_modify_last(buf, bytes) ==
    SubSeq(buf, 1, Len(buf) - Len(bytes)) \o bytes

buffer_clear == <<>>

\* If the buffer holds bytes, fill it from the slicer; hand out the block
\* when it became full.
handle_unaligned_data(bb, buf, in) ==
    IF Len(buf) = 0
    THEN [buf |-> buf, in |-> in, one_block |-> NoBlock]
    ELSE LET n    == MinNat(bb - Len(buf), in.rem)
             got  == buffer_append(buf, SpanBytes(slicer_take(in, U64(n))))
             rest == slicer_after(in, U64(n))
         IN  IF ready_to_consume(bb, got)
             THEN [buf |-> buffer_clear, in |-> rest,
                   one_block |-> [has |-> TRUE, value |-> got]]
             ELSE [buf |-> got, in |-> rest, one_block |-> NoBlock]

\* In alignment: the whole blocks of the slicer, straight from the input;
\* the remainder shorter than a block goes into the buffer.
aligned_data_to_process(bb, buf, in) ==
    LET full_blocks == LimbDiv(in.rem, bb)
        nbytes      == LimbMul(full_blocks, bb)
        in1         == slicer_after(in, nbytes)
    IN  [data |-> slicer_take(in, nbytes), full_blocks |-> full_blocks,
         buf |-> buffer_append(buf, SpanBytes(slicer_take(in1, in1.rem))),
         in |-> slicer_after(in1, in1.rem)]

(***************************************************************************)
(* MerkleDamgard_Hash<MD>.  An engine is [m_digest, m_count, m_buffer].    *)
(* A call in progress is a record r: the engine e, the compress_n calls    *)
(* made so far, what was thrown ("" when nothing), and for final the       *)
(* caller's output bytes.                                                  *)
(***************************************************************************)
Call(src, blocks, data) == [src |-> src, blocks |-> blocks, data |-> data]

\* clear without line 72: the buffered bytes survive.
clear_keeps_buffer(md, e) ==
    [m_digest |-> MD_init(md), m_buffer |-> e.m_buffer, m_count |-> Zero64]

\* clear without line 73: the byte counter survives.
clear_keeps_count(md, e) ==
    [m_digest |-> MD_init(md), m_buffer |-> buffer_clear, m_count |-> e.m_count]

\* void clear()
clear(md, e) ==
    [m_digest |-> MD_init(md), m_buffer |-> buffer_clear, m_count |-> Zero64]

\* MerkleDamgard_Hash() { clear(); } on members of any prior content.
MerkleDamgard_Hash(md) ==
    clear(md, [m_digest |-> <<>>, m_buffer |-> <<>>, m_count |-> Zero64])

\* update_body without line 49: the block the buffer completed is dropped.
update_body_drops_block(md, s) ==
    LET bb == md.block_bytes
        h  == handle_unaligned_data(bb, s.buffer, s.in)
        d1 == s.digest
        c1 == IF h.one_block.has
              THEN Append(s.calls, Call("buffer", U64(1), <<>>))
              ELSE s.calls
        al == in_alignment(h.buf)
        a  == aligned_data_to_process(bb, h.buf, h.in)
        bulk == al /\ ~LimbIsZero(a.full_blocks)
    IN  [digest |-> IF bulk THEN MD_compress_n(md, d1, a.data, a.full_blocks) ELSE d1,
         calls  |-> IF bulk THEN Append(c1, Call(a.data.src, a.full_blocks, <<>>)) ELSE c1,
         buffer |-> IF al THEN a.buf ELSE h.buf,
         in     |-> IF al THEN a.in ELSE h.in,
         iters  |-> s.iters + 1]

\* update_body with line 54 as if(full_blocks > 1).
update_body_skips_single(md, s) ==
    LET bb == md.block_bytes
        h  == handle_unaligned_data(bb, s.buffer, s.in)
        d1 == IF h.one_block.has
              THEN MD_compress_n(md, s.digest, BufferSpan(h.one_block.value), U64(1))
              ELSE s.digest
        c1 == IF h.one_block.has
              THEN Append(s.calls, Call("buffer", U64(1), <<>>))
              ELSE s.calls
        al == in_alignment(h.buf)
        a  == aligned_data_to_process(bb, h.buf, h.in)
        bulk == al /\ LimbLess(U64(1), a.full_blocks)
    IN  [digest |-> IF bulk THEN MD_compress_n(md, d1, a.data, a.full_blocks) ELSE d1,
         calls  |-> IF bulk THEN Append(c1, Call(a.data.src, a.full_blocks, <<>>)) ELSE c1,
         buffer |-> IF al THEN a.buf ELSE h.buf,
         in     |-> IF al THEN a.in ELSE h.in,
         iters  |-> s.iters + 1]

\* update_body with lines 53-56 taking one block of the input per pass.
update_body_block_by_block(md, s) ==
    LET bb == md.block_bytes
        h  == handle_unaligned_data(bb, s.buffer, s.in)
        d1 == IF h.one_block.has
              THEN MD_compress_n(md, s.digest, BufferSpan(h.one_block.value), U64(1))
              ELSE s.digest
        c1 == IF h.one_block.has
              THEN Append(s.calls, Call("buffer", U64(1), <<>>))
              ELSE s.calls
        al == in_alignment(h.buf)
        one == al /\ ~LimbLess(h.in.rem, U64(bb))
        a  == aligned_data_to_process(bb, h.buf, h.in)
    IN  IF one
        THEN [digest |-> MD_compress_n(md, d1, slicer_take(h.in, U64(bb)), U64(1)),
              calls  |-> Append(c1, Call("input", U64(1), <<>>)),
              buffer |-> h.buf,
              in     |-> slicer_after(h.in, U64(bb)),
              iters  |-> s.iters + 1]
        ELSE [digest |-> d1, calls |-> c1,
              buffer |-> IF al THEN a.buf ELSE h.buf,
              in     |-> IF al THEN a.in ELSE h.in,
              iters  |-> s.iters + 1]

\* update_body without lines 52-57: only the unaligned part.
update_body_only_unaligned(md, s) ==
    LET bb == md.block_bytes
        h  == handle_unaligned_data(bb, s.buffer, s.in)
    IN  [digest |-> IF h.one_block.has
                    THEN MD_compress_n(md, s.digest, BufferSpan(h.one_block.value), U64(1))
                    ELSE s.digest,
         calls  |-> IF h.one_block.has
                    THEN Append(s.calls, Call("buffer", U64(1), <<>>))
                    ELSE s.calls,
         buffer |-> h.buf,
         in     |-> h.in,
         iters  |-> s.iters + 1]

\* One pass of the body of while(!in.empty()).
update_body(md, s) ==
    LET bb == md.block_bytes
        h  == handle_unaligned_data(bb, s.buffer, s.in)
        d1 == IF h.one_block.has
              THEN MD_compress_n(md, s.digest, BufferSpan(h.one_block.value), U64(1))
              ELSE s.digest
        c1 == IF h.one_block.has
              THEN Append(s.calls, Call("buffer", U64(1), <<>>))
              ELSE s.calls
        al == in_alignment(h.buf)
        a  == aligned_data_to_process(bb, h.buf, h.in)
        bulk == al /\ ~LimbIsZero(a.full_blocks)
    IN  [digest |-> IF bulk THEN MD_compress_n(md, d1, a.data, a.full_blocks) ELSE d1,
         calls  |-> IF bulk THEN Append(c1, Call(a.data.src, a.full_blocks, <<>>)) ELSE c1,
         buffer |-> IF al THEN a.buf ELSE h.buf,
         in     |-> IF al THEN a.in ELSE h.in,
         iters  |-> s.iters + 1]

\* The loop after a pass that took s to t: a pass that leaves the slicer
\* and the buffer as they were is repeated for ever (spins); idle counts
\* the passes that took no input byte.
loop_after(md, s, t) ==
    LET idle == IF t.in = s.in THEN 1 ELSE 0
        t1   == t @@ [idle |-> s.idle + idle, spins |-> FALSE]
    IN  IF t.in = s.in /\ t.buffer = s.buffer
        THEN [t1 EXCEPT !.spins = TRUE]
        ELSE t1

\* while(!in.empty()) { ... }
RECURSIVE update_loop(_, _)
update_loop(md, s) ==
    IF slicer_empty(s.in) \/ s.spins THEN s
    ELSE update_loop(md, loop_after(md, s, update_body(md, s)))

\* The number of blocks a sequence of compress_n calls was given, in the
\* width of zero.
RECURSIVE BlocksOf(_, _)
BlocksOf(calls, zero) ==
    IF calls = <<>> THEN zero
    ELSE LimbAdd(BlocksOf(Tail(calls), zero),
                 Head(calls).blocks \o SubSeq(zero, 5, Len(zero)))

\* update with line 60 as m_count += (the bytes compressed).
update_counts_compressed(md, e, input) ==
    LET s == update_loop(md, [digest |-> e.m_digest, buffer |-> e.m_buffer,
                              in |-> BufferSlicer(input), calls |-> <<>>,
                              iters |-> 0, idle |-> 0, spins |-> FALSE])
    IN  [e |-> [m_digest |-> s.digest, m_buffer |-> s.buffer,
                m_count |-> LimbAdd(e.m_count,
                                    LimbMul(BlocksOf(s.calls, Zero64), md.block_bytes))],
         calls |-> s.calls, iters |-> s.iters, idle |-> s.idle,
         spins |-> s.spins, drained |-> slicer_empty(s.in), threw |-> ""]

\* update with an early return for an empty input that clears the buffer.
update_empty_clears_buffer(md, e, input) ==
    IF LimbIsZero(input.len)
    THEN [e |-> [e EXCEPT !.m_buffer = buffer_clear],
          calls |-> <<>>, iters |-> 0, idle |-> 0, spins |-> FALSE,
          drained |-> TRUE, threw |-> ""]
    ELSE LET s == update_loop(md, [digest |-> e.m_digest, buffer |-> e.m_buffer,
                                   in |-> BufferSlicer(input), calls |-> <<>>,
                                   iters |-> 0, idle |-> 0, spins |-> FALSE])
         IN  [e |-> [m_digest |-> s.digest, m_buffer |-> s.buffer,
                     m_count |-> LimbAdd(e.m_count, input.len)],
              calls |-> s.calls, iters |-> s.iters, idle |-> s.idle,
              spins |-> s.spins, drained |-> slicer_empty(s.in), threw |-> ""]

\* void update(std::span<const uint8_t> input)
update(md, e, input) ==
    LET s == update_loop(md, [digest |-> e.m_digest, buffer |-> e.m_buffer,
                              in |-> BufferSlicer(input), calls |-> <<>>,
                              iters |-> 0, idle |-> 0, spins |-> FALSE])
    IN  [e |-> [m_digest |-> s.digest, m_buffer |-> s.buffer,
                m_count |-> LimbAdd(e.m_count, input.len)],
         calls |-> s.calls, iters |-> s.iters, idle |-> s.idle,
         spins |-> s.spins, drained |-> slicer_empty(s.in), threw |-> ""]

\* The bytes of a 16-bit limb, least significant first.
LimbBytes(l) == <<l % 256, l \div 256>>

RECURSIVE Reverse(_)
Reverse(q) == IF q = <<>> THEN <<>> ELSE Reverse(Tail(q)) \o <<Head(q)>>

\* store_le(uint64_t, out): the 8 bytes, least significant first.
store_le(x) == LimbBytes(x[1]) \o LimbBytes(x[2]) \o LimbBytes(x[3]) \o LimbBytes(x[4])

\* store_be(uint64_t, out): the 8 bytes, most significant first.
store_be(x) == Reverse(store_le(x))

\* append_padding_bit with the marker of the Big case in both cases.
append_padding_bit_always_80(md, r) ==
    IF ready_to_consume(md.block_bytes, r.e.m_buffer)
    THEN [r EXCEPT !.threw = "assert78"]
    ELSE [r EXCEPT !.e.m_buffer = buffer_append(@, <<128>>)]

\* void append_padding_bit()
append_padding_bit(md, r) ==
    IF ready_to_consume(md.block_bytes, r.e.m_buffer)
    THEN [r EXCEPT !.threw = "assert78"]
    ELSE IF md.bit_endianness = "Big"
         THEN [r EXCEPT !.e.m_buffer = buffer_append(@, <<128>>)]
         ELSE [r EXCEPT !.e.m_buffer = buffer_append(@, <<1>>)]

\* append_counter_and_finalize without lines 91-94.
finalize_flush_skipped(md, r) == r

\* finalize_flush with line 91 as elements_until_alignment() <= ctr_bytes.
finalize_flush_when_equal(md, r) ==
    IF elements_until_alignment(md.block_bytes, r.e.m_buffer) <= md.ctr_bytes
    THEN LET full == fill_up_with_zeros(md.block_bytes, r.e.m_buffer)
         IN  [r EXCEPT !.e.m_digest = MD_compress_n(md, @, BufferSpan(full), U64(1)),
                       !.e.m_buffer = buffer_clear,
                       !.calls = Append(@, Call("buffer", U64(1), full))]
    ELSE r

\* The first half of append_counter_and_finalize: the block that has no
\* room for the counter.
finalize_flush(md, r) ==
    IF elements_until_alignment(md.block_bytes, r.e.m_buffer) < md.ctr_bytes
    THEN LET full == fill_up_with_zeros(md.block_bytes, r.e.m_buffer)
         IN  [r EXCEPT !.e.m_digest = MD_compress_n(md, @, BufferSpan(full), U64(1)),
                       !.e.m_buffer = buffer_clear,
                       !.calls = Append(@, Call("buffer", U64(1), full))]
    ELSE r

\* finalize_counter with line 101 as bit_count = m_count: bytes, not bits.
finalize_counter_in_bytes(md, r) ==
    IF ~(elements_until_alignment(md.block_bytes, r.e.m_buffer) >= md.ctr_bytes)
    THEN [r EXCEPT !.threw = "assert97"]
    ELSE LET zeroed    == fill_up_with_zeros(md.block_bytes, r.e.m_buffer)
             bit_count == r.e.m_count
             last      == IF md.byte_endianness = "Big"
                          THEN directly_modify_last(zeroed, store_be(bit_count))
                          ELSE directly_modify_last(zeroed, store_le(bit_count))
         IN  [r EXCEPT !.e.m_digest = MD_compress_n(md, @, BufferSpan(last), U64(1)),
                       !.e.m_buffer = buffer_clear,
                       !.calls = Append(@, Call("buffer", U64(1), last))]

\* finalize_counter with the byte orders of lines 103-107 exchanged.
finalize_counter_swapped_order(md, r) ==
    IF ~(elements_until_alignment(md.block_bytes, r.e.m_buffer) >= md.ctr_bytes)
    THEN [r EXCEPT !.threw = "assert97"]
    ELSE LET zeroed    == fill_up_with_zeros(md.block_bytes, r.e.m_buffer)
             bit_count == LimbMul(r.e.m_count, 8)
             last      == IF md.byte_endianness = "Big"
                          THEN directly_modify_last(zeroed, store_le(bit_count))
                          ELSE directly_modify_last(zeroed, store_be(bit_count))
         IN  [r EXCEPT !.e.m_digest = MD_compress_n(md, @, BufferSpan(last), U64(1)),
                       !.e.m_buffer = buffer_clear,
                       !.calls = Append(@, Call("buffer", U64(1), last))]

\* The second half: the block that carries the counter.  cursor and under
\* keep where the buffer was filled to before fill_up_with_zeros, and the 8
\* bytes the counter is written over.
finalize_counter(md, r) ==
    IF ~(elements_until_alignment(md.block_bytes, r.e.m_buffer) >= md.ctr_bytes)
    THEN [r EXCEPT !.threw = "assert97"]
    ELSE LET zeroed    == fill_up_with_zeros(md.block_bytes, r.e.m_buffer)
             bit_count == LimbMul(r.e.m_count, 8)
             last      == IF md.byte_endianness = "Big"
                          THEN directly_modify_last(zeroed, store_be(bit_count))
                          ELSE directly_modify_last(zeroed, store_le(bit_count))
         IN  [r EXCEPT !.e.m_digest = MD_compress_n(md, @, BufferSpan(last), U64(1)),
                       !.e.m_buffer = buffer_clear,
                       !.calls = Append(@, Call("buffer", U64(1), last)),
                       !.cursor = Len(r.e.m_buffer),
                       !.under = SubSeq(zeroed, md.block_bytes - 7, md.block_bytes)]

\* void append_counter_and_finalize()
append_counter_and_finalize(md, r) == finalize_counter(md, finalize_flush(md, r))

\* copy_out_vec_be / copy_out_vec_le of the first n digest bytes (the stub's
\* digest words are single bytes) over the start of out.
copy_out_vec(out, n, digest) ==
    [i \in 1..Len(out) |-> IF i <= n /\ i <= Len(digest) THEN digest[i] ELSE out[i]]

\* copy_output without line 114.
copy_output_unchecked(md, r) ==
    [r EXCEPT !.output = copy_out_vec(@, md.output_bytes, r.e.m_digest),
              !.copied = r.e.m_digest]

\* void copy_output(std::span<uint8_t> output)
copy_output(md, r) ==
    IF ~(Len(r.output) >= md.output_bytes)
    THEN [r EXCEPT !.threw = "assert114"]
    ELSE [r EXCEPT !.output = copy_out_vec(@, md.output_bytes, r.e.m_digest),
                   !.copied = r.e.m_digest]

\* final without line 67.  A step runs unless an earlier one threw.
final_without_clear(md, e, output) ==
    LET r0 == [e |-> e, calls |-> <<>>, threw |-> "", output |-> output,
               copied |-> <<>>, cursor |-> -1, under |-> <<>>]
        r1 == append_padding_bit(md, r0)
        r2 == IF r1.threw = "" THEN append_counter_and_finalize(md, r1) ELSE r1
    IN  IF r2.threw = "" THEN copy_output(md, r2) ELSE r2

\* final with the size check of copy_output made before anything else.
final_checks_size_first(md, e, output) ==
    LET r0 == [e |-> e, calls |-> <<>>, threw |-> "", output |-> output,
               copied |-> <<>>, cursor |-> -1, under |-> <<>>]
        r1 == IF ~(Len(output) >= md.output_bytes)
              THEN [r0 EXCEPT !.threw = "assert114"]
              ELSE append_padding_bit(md, r0)
        r2 == IF r1.threw = "" THEN append_counter_and_finalize(md, r1) ELSE r1
        r3 == IF r2.threw = "" THEN copy_output(md, r2) ELSE r2
    IN  IF r3.threw = "" THEN [r3 EXCEPT !.e = clear(md, r3.e)] ELSE r3

\* void final(std::span<uint8_t> output)
\* A step runs unless an earlier one threw: the exception leaves final.
final(md, e, output) ==
    LET r0 == [e |-> e, calls |-> <<>>, threw |-> "", output |-> output,
               copied |-> <<>>, cursor |-> -1, under |-> <<>>]
        r1 == append_padding_bit(md, r0)
        r2 == IF r1.threw = "" THEN append_counter_and_finalize(md, r1) ELSE r1
        r3 == IF r2.threw = "" THEN copy_output(md, r2) ELSE r2
    IN  IF r3.threw = "" THEN [r3 EXCEPT !.e = clear(md, r3.e)] ELSE r3

(***************************************************************************)
(* Timer (src/cli/timer.cpp).  A timer is the record of its members that   *)
(* start and stop touch.  Botan::OS::get_system_timestamp_ns and           *)
(* get_cpu_cycle_counter are the environment: every call gives some value, *)
(* the timestamps in no order (stop allows for now <= m_timer_start), the  *)
(* cycle counter 0 where there is none and not running backwards within an *)
(* interval; m_clock_cycle_ratio is 0 or 1.                                *)
(***************************************************************************)
ClockCycleRatios == {0, 1}

\* Timer::Timer: the members start and stop use are zero.
Timer(clock_cycle_ratio) ==
    [m_timer_start |-> 0, m_time_used |-> 0, m_event_count |-> 0,
     m_cpu_cycles_start |-> 0, m_cpu_cycles_used |-> 0,
     m_clock_cycle_ratio |-> clock_cycle_ratio]

\* void Timer::stop(): now and cycles are what the two clocks give.
Timer_stop(t, now, cycles) ==
    IF t.m_timer_start # 0
    THEN LET cycles_taken == cycles - t.m_cpu_cycles_start
         IN  [t EXCEPT
                !.m_time_used = IF now > t.m_timer_start
                                THEN @ + (now - t.m_timer_start) ELSE @,
                !.m_cpu_cycles_used =
                    IF t.m_cpu_cycles_start # 0 /\ cycles_taken > 0
                    THEN @ + cycles_taken * t.m_clock_cycle_ratio ELSE @,
                !.m_timer_start = 0,
                !.m_event_count = @ + 1]
    ELSE t

\* Timer::start without line 45: a running timer is started over.
Timer_start_without_stop(t, stopped_at, stopped_cycles, now, cycles) ==
    [t EXCEPT !.m_timer_start = now, !.m_cpu_cycles_start = cycles]

\* void Timer::start(): stop() with its clock values, then the two clocks
\* again.
Timer_start(t, stopped_at, stopped_cycles, now, cycles) ==
    [Timer_stop(t, stopped_at, stopped_cycles) EXCEPT
        !.m_timer_start = now, !.m_cpu_cycles_start = cycles]

(***************************************************************************)
(* The state: the template argument MD (fixed at instantiation), the input *)
(* pattern, the engine instances, and two history variables: aux[i] is     *)
(* what instance i absorbed since its last reset (construction, clear or a *)
(* final that returned), ret is what the last call did.                    *)
(***************************************************************************)
Inst == {1, 2}

Wide(x) == x \o <<0>>

\* total: the bytes absorbed since the last reset; msg: those absorbed since
\* the last construction, clear or call of final (a final that threw
\* included); explicit: those of total that came as explicit inputs; fails:
\* the calls of final that threw since the last reset; huge: whether one of
\* the wrap-length inputs was absorbed since the last reset.
FreshAux ==
    [total |-> Wide(Zero64), msg |-> Wide(Zero64), explicit |-> 0, fails |-> 0,
     huge |-> FALSE]

\* set_engine with m_count declared static: one counter for all instances.
set_engine_static_count(i, e) ==
    [j \in Inst |-> IF j = i THEN e ELSE [eng[j] EXCEPT !.m_count = e.m_count]]

\* The members m_digest, m_count and m_buffer belong to one instance.
set_engine(i, e) == [eng EXCEPT ![i] = e]

\* The state of instance i before a call, as far as ret keeps it.
Pre(i) == [total |-> aux[i].total, msg |-> aux[i].msg, fails |-> aux[i].fails,
           explicit |-> aux[i].explicit,
           huge |-> aux[i].huge, fill |-> Len(eng[i].m_buffer),
           count |-> eng[i].m_count]

InitWith(mds, pats, ratios) ==
    /\ MD \in mds
    /\ pat \in pats
    /\ eng = [i \in Inst |-> MerkleDamgard_Hash(MD)]
    /\ aux = [i \in Inst |-> FreshAux]
    /\ ret = [op |-> "new", inst |-> 0, threw |-> ""]
    /\ timer \in {Timer(ratio) : ratio \in ratios}
    /\ thist = [op |-> "new", open |-> FALSE, ended |-> 0]

\* The input lengths of the explicit update calls: around the place where
\* the counter stops fitting, around the block size, and several blocks.
Lens ==
    LET bb == MD.block_bytes
    IN  {0, bb - MD.ctr_bytes - 1, bb - MD.ctr_bytes, bb - 1, bb, bb + 1,
         MaxBlocks * bb, MaxBlocks * bb + 1}

\* After a final that threw, the engine is driven on with these lengths.
LensAfterThrow == {0, MD.block_bytes - MD.ctr_bytes}

\* The lengths final's output span may have.
OutLens == {0, MD.output_bytes - 1, MD.output_bytes, MD.output_bytes + 1}

\* The input lengths of the calls that take the counter to its wrap:
\* 2^61 - 1, 2^61, 2^64 - block_bytes, 2^64 - 1.
HugeLens ==
    {<<Base - 1, Base - 1, Base - 1, 2^13 - 1>>, <<0, 0, 0, 2^13>>,
     <<Base - MD.block_bytes, Base - 1, Base - 1, Base - 1>>,
     <<Base - 1, Base - 1, Base - 1, Base - 1>>}

\* The call update(input) on instance i.
DoUpdate(i, len, n, isHuge) ==
    \E u \in {update(MD, eng[i], InputSpan(LimbMod(aux[i].total, Period), len))} :
        /\ eng' = set_engine(i, u.e)
        /\ aux' = [aux EXCEPT ![i].total = LimbAdd(@, Wide(len)),
                              ![i].msg = LimbAdd(@, Wide(len)),
                              ![i].explicit = @ + n,
                              ![i].huge = @ \/ isHuge]
        /\ ret' = [op |-> "update", inst |-> i, threw |-> u.threw,
                   calls |-> u.calls, iters |-> u.iters, idle |-> u.idle,
                   spins |-> u.spins, drained |-> u.drained,
                   empty |-> LimbIsZero(len)]
        /\ UNCHANGED <<MD, pat, timer, thist>>

UpdateFrom(i, lens) ==
    \E n \in lens :
        /\ aux[i].explicit + n <= MaxBlocks * MD.block_bytes + 1
        /\ DoUpdate(i, U64(n), n, FALSE)

Update(i) == UpdateFrom(i, IF aux[i].fails = 0 THEN Lens ELSE LensAfterThrow)

UpdateHuge(i) ==
    \E len \in HugeLens :
        /\ MD.kind = "last"
        /\ ~aux[i].huge
        /\ DoUpdate(i, len, 0, TRUE)

\* The call final(output) on instance i; an undersized output makes it throw.
Final(i) ==
    \E outlen \in OutLens :
        \E f \in {final(MD, eng[i], [k \in 1..outlen |-> -1])} :
            /\ outlen < MD.output_bytes => aux[i].fails < MaxFail
            /\ eng' = set_engine(i, f.e)
            /\ aux' = [aux EXCEPT ![i] = IF f.threw = "" THEN FreshAux
                                         ELSE [@ EXCEPT !.fails = @ + 1,
                                                       !.msg = Wide(Zero64)]]
            /\ ret' = [op |-> "final", inst |-> i, threw |-> f.threw,
                       calls |-> f.calls, output |-> f.output,
                       copied |-> f.copied, cursor |-> f.cursor,
                       under |-> f.under, pre |-> Pre(i)]
            /\ UNCHANGED <<MD, pat, timer, thist>>

\* The call clear() on instance i.
Clear(i) ==
    /\ eng' = set_engine(i, clear(MD, eng[i]))
    /\ aux' = [aux EXCEPT ![i] = FreshAux]
    /\ ret' = [op |-> "clear", inst |-> i, threw |-> "", pre |-> Pre(i)]
    /\ UNCHANGED <<MD, pat, timer, thist>>

\* One instance, every parameter set, explicit inputs whose bytes tell their
\* position, recording stub.
Init == InitWith(Implementations({"record"}), {"idx"}, {1})

Next == \E i \in {1} : Update(i) \/ Final(i) \/ Clear(i)

Spec == Init /\ [][Next]_vars

\* One instance whose inputs go up to the lengths at which bit_count and
\* m_count wrap; the stub keeps the last block only, the input bytes are
\* all alike.
InitLong ==
    InitWith({T \in Implementations({"last"}) :
                 T.bit_endianness = "Big" /\ T.ctr_bytes = 8},
             {"hi"}, {1})

NextLong == \E i \in {1} : Update(i) \/ UpdateHuge(i) \/ Final(i) \/ Clear(i)

SpecLong == InitLong /\ [][NextLong]_vars

\* Two instances of one parameter set, their calls interleaved in every
\* order.
InitPair ==
    InitWith({T \in Implementations({"record"}) :
                 /\ T.block_bytes = 64 /\ T.ctr_bytes = 8
                 /\ T.bit_endianness = "Big" /\ T.byte_endianness = "Big"},
             {"idx"}, {1})

PairLens == {0, MD.block_bytes - 1, MD.block_bytes + 1}

UpdatePair(i) == UpdateFrom(i, IF aux[i].fails = 0 THEN PairLens ELSE LensAfterThrow)

NextPair == \E i \in Inst : UpdatePair(i) \/ Final(i) \/ Clear(i)

SpecPair == InitPair /\ [][NextPair]_vars

\* What the clocks may give to a stop of timer t.
Timestamps == 0..MaxClock

CyclesAfter(t) == {c \in 0..MaxCycles : c >= t.m_cpu_cycles_start}

\* The call timer.start().  thist keeps, from the timestamps handed out
\* alone, whether an interval is open and how many were ended.
Start ==
    \E stopped_at, now \in Timestamps :
    \E stopped_cycles \in CyclesAfter(timer) : \E cycles \in 0..MaxCycles :
        /\ timer.m_event_count < MaxEvents
        /\ timer' = Timer_start(timer, stopped_at, stopped_cycles, now, cycles)
        /\ thist' = [op |-> "start", open |-> now # 0,
                     ended |-> thist.ended + (IF thist.open THEN 1 ELSE 0)]
        /\ UNCHANGED <<MD, pat, eng, aux, ret>>

\* The call timer.stop().
Stop ==
    \E now \in Timestamps : \E cycles \in CyclesAfter(timer) :
        /\ timer.m_event_count < MaxEvents
        /\ timer' = Timer_stop(timer, now, cycles)
        /\ thist' = [op |-> "stop", open |-> FALSE,
                     ended |-> thist.ended + (IF thist.open THEN 1 ELSE 0)]
        /\ UNCHANGED <<MD, pat, eng, aux, ret>>

\* One timer of either clock cycle ratio, started and stopped in every
\* order; the hash engines are left alone.
InitTimer ==
    InitWith({T \in Implementations({"record"}) :
                 /\ T.block_bytes = 64 /\ T.ctr_bytes = 8
                 /\ T.bit_endianness = "Big" /\ T.byte_endianness = "Big"},
             {"idx"}, ClockCycleRatios)

NextTimer == Start \/ Stop

SpecTimer == InitTimer /\ [][NextTimer]_vars

(***************************************************************************)
(* What the claims speak of.                                               *)
(***************************************************************************)
\* The low 64 bits of a wider count.
Narrow(w) == SubSeq(w, 1, 4)

\* Instance i absorbed only explicit inputs since its last reset, and no
\* final threw since: its stream is the message it is hashing.
Clean(a) == a.fails = 0 /\ ~a.huge

\* The first n bytes of the input stream of an instance.
Stream(n) == SpanBytes(InputSpan(0, U64(n)))

\* Bytes from..to-1 (counted from 0) of the input stream.
StreamPart(from, to) == SubSeq(Stream(to), from + 1, to)

\* The engine a fresh instance is in after the single call update(m), m the
\* first n bytes of the stream.
OneShot(n) == update(MD, MerkleDamgard_Hash(MD), InputSpan(0, U64(n))).e

\* Every byte compress_n was given by instance i since its last reset, once
\* the last call, a final, is over (the recording stub keeps them in the
\* digest state, which a final that returns has copied out and reset).
Compressed == IF ret.threw = "" THEN ret.copied ELSE eng[ret.inst].m_digest

RECURSIVE Concat(_)
Concat(blocks) == IF blocks = <<>> THEN <<>> ELSE Head(blocks) \o Concat(Tail(blocks))

\* The data of the compress_n calls of the last call, in call order.
CallsData == Concat([k \in 1..Len(ret.calls) |-> ret.calls[k].data])

\* C1: chunk-boundary independence.  However the message was split into
\* update calls (empty ones included), a fresh or reset instance is left in
\* the state the single call update(m) leaves a fresh instance in: the same
\* digest state, the same buffered bytes, the same byte counter; and the
\* final that follows does what it does after the single update(m).
C1_ChunkIndependence ==
    /\ \A i \in Inst :
          Clean(aux[i]) => eng[i] = OneShot(ToNat(aux[i].total))
    /\ (ret.op = "final" /\ Clean(ret.pre)) =>
          LET f == final(MD, OneShot(ToNat(ret.pre.total)),
                         [k \in 1..Len(ret.output) |-> -1])
          IN  /\ ret.copied = f.copied
              /\ ret.output = f.output
              /\ ret.calls = f.calls

\* A message longer than a block, absorbed in several non-empty chunks: the
\* last one compressed nothing although a block was compressed before it.
C1_Witness ==
    /\ ret.op = "update" /\ ret.inst = 1 /\ ~ret.empty /\ ret.calls = <<>>
    /\ Clean(aux[1])
    /\ Len(eng[1].m_digest) >= MD.block_bytes
    /\ Len(eng[1].m_buffer) > 1

\* C2: the bytes given to compress_n are the message followed by final's
\* padding, in order, each once, a whole number of blocks: between the
\* calls the whole blocks of the message so far have been compressed and the
\* rest is buffered; after final, what was compressed is the message, then
\* the rest of the blocks final compressed.
C2_CompressedIsMessageThenPadding ==
    /\ \A i \in Inst :
          Clean(aux[i]) =>
             LET L    == ToNat(aux[i].total)
                 done == (L \div MD.block_bytes) * MD.block_bytes
             IN  /\ eng[i].m_digest = Stream(done)
                 /\ eng[i].m_buffer = StreamPart(done, L)
    /\ (ret.op = "final" /\ Clean(ret.pre)) =>
          LET L    == ToNat(ret.pre.total)
              done == (L \div MD.block_bytes) * MD.block_bytes
              c    == Compressed
          IN  /\ Len(c) % MD.block_bytes = 0
              /\ Len(c) > L
              /\ SubSeq(c, 1, L) = Stream(L)
              /\ c = Stream(done) \o CallsData
              /\ \A k \in 1..Len(ret.calls) :
                    /\ ret.calls[k].blocks = U64(1)
                    /\ Len(ret.calls[k].data) = MD.block_bytes

\* A final of a message of more than a block that ends inside a block.
C2_Witness ==
    /\ ret.op = "final" /\ ret.threw = "" /\ Clean(ret.pre)
    /\ ToNat(ret.pre.total) > MD.block_bytes
    /\ ret.pre.fill > 0
    /\ Len(ret.copied) >= 2 * MD.block_bytes

\* load_le: the 64-bit value of 8 bytes, least significant first.
load_le(b) ==
    <<b[1] + 256 * b[2], b[3] + 256 * b[4], b[5] + 256 * b[6], b[7] + 256 * b[8]>>

\* The 64-bit length field of a block, read in the byte order of MD.
LengthField(block) ==
    LET field == SubSeq(block, Len(block) - 7, Len(block))
    IN  IF MD.byte_endianness = "Big" THEN load_le(Reverse(field))
        ELSE load_le(field)

\* (L * 8) mod 2^64 for a count L kept wider than 64 bits.
BitsMod64(L) == Narrow(LimbMul(L, 8))

\* C3: counter correctness.  With L the sum of the input lengths since the
\* last reset, the byte counter is L mod 2^64, no update throws whatever the
\* counter does, and the length field in the last block final compresses is
\* (L * 8) mod 2^64.
C3_LengthField ==
    /\ \A i \in Inst : eng[i].m_count = Narrow(aux[i].total)
    /\ ret.op = "update" => ret.threw = ""
    /\ ret.op = "final" =>
          /\ ret.threw \in {"", "assert114"}
          /\ ret.calls # <<>>
          /\ LengthField(ret.calls[Len(ret.calls)].data) = BitsMod64(ret.pre.total)

\* A final after 2^64 bytes or more: the byte counter has wrapped, and is
\* not zero.
C3_Witness ==
    /\ ret.op = "final" /\ ret.threw = ""
    /\ ret.pre.total[5] > 0
    /\ ~LimbIsZero(ret.pre.count)

\* The state the members are in after MD::init, an empty buffer and a zero
\* counter.
InitialState == [m_digest |-> MD_init(MD), m_buffer |-> <<>>, m_count |-> Zero64]

\* C4: reuse after final.  Whatever came before, a final that returned
\* leaves the digest state, the buffer and the byte counter as the
\* constructor leaves them.
C4_FinalResets ==
    (ret.op = "final" /\ ret.threw = "") =>
        /\ eng[ret.inst] = MerkleDamgard_Hash(MD)
        /\ eng[ret.inst] = InitialState

\* A final that returned, on an engine with buffered bytes and a final that
\* threw behind it.
C4_Witness ==
    /\ ret.op = "final" /\ ret.threw = ""
    /\ ret.pre.fill > 0
    /\ ret.pre.fails > 0
    /\ ~LimbIsZero(ret.pre.count)

\* C5: clear never fails and leaves the initial digest state, an empty
\* buffer and a zero counter, the state of a fresh instance, from every
\* reachable state; a second clear changes nothing.
C5_ClearResets ==
    /\ ret.op = "clear" =>
          /\ ret.threw = ""
          /\ eng[ret.inst] = InitialState
          /\ eng[ret.inst] = MerkleDamgard_Hash(MD)
    /\ \A i \in Inst :
          /\ clear(MD, eng[i]) = InitialState
          /\ clear(MD, clear(MD, eng[i])) = clear(MD, eng[i])

\* A clear in the middle of a message: more than a block absorbed, bytes in
\* the buffer.
C5_Witness ==
    /\ ret.op = "clear"
    /\ ret.pre.fill > 0
    /\ ret.pre.explicit > MD.block_bytes
    /\ ~LimbIsZero(ret.pre.count)

\* C6: the assertions of lines 78 and 97 never fail: between calls the
\* buffer is never full, and no final throws anything but the size check of
\* copy_output.
C6_AssertionsHold ==
    /\ \A i \in Inst : ~ready_to_consume(MD.block_bytes, eng[i].m_buffer)
    /\ ret.threw \notin {"assert78", "assert97"}
    /\ (ret.op = "final" /\ Len(ret.output) >= MD.output_bytes) => ret.threw = ""

\* A final on a buffer one byte short of a block: the marker fills it, the
\* counter needs a block of its own.
C6_Witness ==
    /\ ret.op = "final" /\ ret.threw = ""
    /\ ret.pre.fill = MD.block_bytes - 1
    /\ Len(ret.calls) = 2

\* C7: a final whose output is shorter than output_bytes throws and leaves
\* every byte of output as it was; otherwise it writes the first
\* output_bytes digest bytes over the first output_bytes bytes of output and
\* leaves the rest as it was.
C7_OutputSize ==
    ret.op = "final" =>
        IF Len(ret.output) < MD.output_bytes
        THEN /\ ret.threw = "assert114"
             /\ \A k \in 1..Len(ret.output) : ret.output[k] = -1
        ELSE /\ ret.threw = ""
             /\ Len(ret.copied) >= MD.output_bytes
             /\ \A k \in 1..Len(ret.output) :
                   ret.output[k] = IF k <= MD.output_bytes THEN ret.copied[k] ELSE -1

\* A final with an output one byte short.
C7_Witness ==
    /\ ret.op = "final" /\ ret.threw = "assert114"
    /\ Len(ret.output) = MD.output_bytes - 1
    /\ ret.pre.fill > 0

(***************************************************************************)
(* The padding of the Merkle-Damgard construction, stated on its own.      *)
(***************************************************************************)
Zeros(n) == [k \in 1..n |-> 0]

Marker == IF MD.bit_endianness = "Big" THEN 128 ELSE 1

\* Byte k (1 the least significant) of a number given by its limbs.
ByteOf(v, k) == (v[(k + 1) \div 2] \div (IF k % 2 = 1 THEN 1 ELSE 256)) % 256

\* The 8 bytes of (L * 8) mod 2^64 in the byte order of MD.
FieldBytes(L) ==
    [k \in 1..8 |-> ByteOf(LimbMul(L, 8),
                           IF MD.byte_endianness = "Big" THEN 9 - k ELSE k)]

\* Whether the counter has no room in the block the marker goes into, when
\* f bytes are buffered.
NeedsTwoBlocks(f) == MD.block_bytes - (f + 1) < MD.ctr_bytes

\* The padding after f buffered bytes: the marker, zeros to the last 8 bytes
\* of the block that has room for ctr_bytes, the bit count of L bytes.
Padding(f, L) ==
    <<Marker>>
    \o Zeros((IF NeedsTwoBlocks(f) THEN 2 ELSE 1) * MD.block_bytes - f - 1 - 8)
    \o FieldBytes(L)

\* For the last call, a final: the length of the message (the bytes absorbed
\* since the construction, the last clear or the last call of final), and
\* its bytes that were in the buffer.
MsgLen == ToNat(ret.pre.msg)

Buffered ==
    StreamPart(ToNat(ret.pre.total) - ret.pre.fill, ToNat(ret.pre.total))

\* Message lengths k * block_bytes - 1, k * block_bytes, k * block_bytes + 1.
AtBlockBoundary(L) == L >= MD.block_bytes - 1 /\ (L + 1) % MD.block_bytes \in {0, 1, 2}

\* C8 as stated: at each of the three lengths final compresses an extra
\* block before the block with the length field.
C8_AllThreeTakeExtraBlock ==
    (ret.op = "final" /\ ret.threw = "" /\ AtBlockBoundary(MsgLen)) =>
        Len(ret.calls) = 2

\* C8, amended: of the three lengths only k * block_bytes - 1 takes the
\* extra block (the marker fills the buffer); at k * block_bytes and
\* k * block_bytes + 1 the marker, the zeros and the length field share one
\* block.  At all three the blocks final compresses are the buffered
\* message bytes followed by the padding.
C8_BlockBoundary ==
    (ret.op = "final" /\ AtBlockBoundary(MsgLen)) =>
        /\ Len(ret.calls) = IF (MsgLen + 1) % MD.block_bytes = 0 THEN 2 ELSE 1
        /\ ret.pre.fill = MsgLen % MD.block_bytes
        /\ CallsData = Buffered \o Padding(ret.pre.fill, ret.pre.total)

\* A final of a message of 2 * block_bytes - 1 bytes.
C8_Witness ==
    /\ ret.op = "final" /\ ret.threw = ""
    /\ MsgLen = 2 * MD.block_bytes - 1
    /\ Len(ret.calls) = 2

\* C10: final compresses two blocks when fewer than ctr_bytes bytes are free
\* after the marker, which is when L mod block_bytes >= block_bytes -
\* ctr_bytes for the message length L, and one block otherwise; of two
\* blocks the first is the buffered bytes, the marker and zeros, the second
\* zeros and the length field.
C10_BlocksInFinal ==
    ret.op = "final" =>
        LET bb == MD.block_bytes
            f  == ret.pre.fill
        IN  /\ NeedsTwoBlocks(f) <=> (MsgLen % bb >= bb - MD.ctr_bytes)
            /\ Len(ret.calls) = IF NeedsTwoBlocks(f) THEN 2 ELSE 1
            /\ NeedsTwoBlocks(f) =>
                  /\ ret.calls[1].data = Buffered \o <<Marker>> \o Zeros(bb - f - 1)
                  /\ ret.calls[2].data = Zeros(bb - 8) \o FieldBytes(ret.pre.total)

\* A final with exactly block_bytes - ctr_bytes bytes buffered, after more
\* than a block: the counter just does not fit.
C10_Witness ==
    /\ ret.op = "final" /\ ret.threw = ""
    /\ ret.pre.fill = MD.block_bytes - MD.ctr_bytes
    /\ MsgLen > MD.block_bytes
    /\ Len(ret.calls) = 2

\* What a call on one instance leaves of the others: everything.
OthersUntouched == \A i \in Inst : ret'.inst # i => eng'[i] = eng[i]

\* Every instance is where its own calls alone take it: one that absorbed a
\* message since its reset is in the state of a fresh instance after that
\* message, and a final gives what it gives there.
AsIfAlone ==
    /\ \A i \in Inst : Clean(aux[i]) => eng[i] = OneShot(ToNat(aux[i].total))
    /\ (ret.op = "final" /\ Clean(ret.pre)) =>
          LET f == final(MD, OneShot(ToNat(ret.pre.total)),
                         [k \in 1..Len(ret.output) |-> -1])
          IN  ret.copied = f.copied /\ ret.output = f.output /\ ret.threw = f.threw

\* C9: distinct instances are independent.  Under every interleaving of
\* update, final and clear on two instances, a call on one changes no member
\* of the other, and each is in the state its own calls alone lead to.
C9_InstancesIndependent == []AsIfAlone /\ [][OthersUntouched]_vars

\* A final on instance 2 while instance 1 is in the middle of another
\* message, with a block compressed and bytes buffered.
C9_Witness ==
    /\ ret.op = "final" /\ ret.inst = 2 /\ ret.threw = ""
    /\ ret.pre.fill > 0
    /\ Len(eng[1].m_digest) > 0
    /\ Len(eng[1].m_buffer) > 0
    /\ ret.pre.total # aux[1].total

\* C11: padding layout.  What final compresses after the buffered message
\* bytes is one marker byte (0x80 when bit_endianness is Big, 0x01
\* otherwise), then zero bytes, then the bit count in the last 8 bytes of the
\* last block, most significant byte first when byte_endianness is Big and
\* least significant first otherwise; the field is 8 bytes whatever
\* ctr_bytes is, so the rest of the last ctr_bytes bytes is zero.
C11_PaddingLayout ==
    ret.op = "final" =>
        LET bb   == MD.block_bytes
            f    == ret.pre.fill
            all  == CallsData
            last == ret.calls[Len(ret.calls)].data
            bits == LimbMul(ret.pre.total, 8)
        IN  /\ Len(all) % bb = 0
            /\ SubSeq(all, 1, f) = Buffered
            /\ all[f + 1] = (IF MD.bit_endianness = "Big" THEN 128 ELSE 1)
            /\ \A k \in (f + 2)..(Len(all) - 8) : all[k] = 0
            /\ \A k \in 1..8 :
                  last[bb - 8 + k] =
                     ByteOf(bits, IF MD.byte_endianness = "Big" THEN 9 - k ELSE k)
            /\ \A k \in (bb - MD.ctr_bytes + 1)..(bb - 8) : last[k] = 0

\* A final with ctr_bytes = 16 of a message whose bit count takes two bytes,
\* with bytes in the buffer.
C11_Witness ==
    /\ ret.op = "final" /\ ret.threw = ""
    /\ MD.ctr_bytes = 16
    /\ ret.pre.fill > 0
    /\ ToNat(ret.pre.total) > MD.block_bytes
    /\ Len(ret.calls) = 1

\* The bytes of the input stream of instance i that came last, as many as
\* its buffer holds.
MostRecent(i) ==
    StreamPart(ToNat(aux[i].total) - Len(eng[i].m_buffer), ToNat(aux[i].total))

\* C12 as stated: after every completed update, clear or final that
\* returned, the buffer holds 0 to block_bytes - 1 bytes, as many as the
\* byte counter mod block_bytes, and they are the bytes absorbed last.
C12_FillIsCountModBlock ==
    ~(ret.op = "final" /\ ret.threw # "") =>
        \A i \in Inst :
            /\ Len(eng[i].m_buffer) \in 0..(MD.block_bytes - 1)
            /\ Len(eng[i].m_buffer) = LimbMod(eng[i].m_count, MD.block_bytes)
            /\ eng[i].m_buffer = MostRecent(i)

\* C12, amended: between the calls the buffer holds 0 to block_bytes - 1
\* bytes, never a full block; they are the bytes absorbed last, in order;
\* their number is (the bytes absorbed since the construction, the last
\* clear or the last call of final, failed or not) mod block_bytes, which is
\* the byte counter mod block_bytes unless a final failed its output size
\* check since the last reset.
C12_BufferInvariant ==
    \A i \in Inst :
        /\ Len(eng[i].m_buffer) \in 0..(MD.block_bytes - 1)
        /\ ~ready_to_consume(MD.block_bytes, eng[i].m_buffer)
        /\ Len(eng[i].m_buffer) = LimbMod(aux[i].msg, MD.block_bytes)
        /\ aux[i].fails = 0 =>
              Len(eng[i].m_buffer) = LimbMod(eng[i].m_count, MD.block_bytes)
        /\ eng[i].m_buffer = MostRecent(i)

\* An update that completed after a final that failed: bytes in the buffer,
\* and not as many as the byte counter mod block_bytes.
C12_Witness ==
    /\ ret.op = "update" /\ ret.inst = 1
    /\ aux[1].fails > 0
    /\ Len(eng[1].m_buffer) > 0
    /\ Len(eng[1].m_buffer) # LimbMod(eng[1].m_count, MD.block_bytes)

(***************************************************************************)
(* One call of update, as a step: the state before it and the state after. *)
(***************************************************************************)
\* The length of the input of the update that is this step (the stream of
\* the instance grew by it).
InputLen(i) == LimbSub(aux'[i].total, aux[i].total)

\* f + len(input) for an update of len bytes on instance i, f the buffer
\* fill before it; not reduced mod 2^64.
FillPlusLen(i, len) == LimbAdd(Wide(U64(Len(eng[i].m_buffer))), len)

\* C13: an update with f bytes buffered adds len(input) to the byte counter
\* mod 2^64 and compresses floor((f + len(input)) / block_bytes) blocks in
\* all; when f + len(input) < block_bytes it calls compress_n not at all
\* and leaves the digest state as it was, the counter growing all the same.
C13_UpdateEffect ==
    [][ret'.op = "update" =>
          \E i \in {ret'.inst} : \E len \in {InputLen(i)} :
          \E fl \in {FillPlusLen(i, len)} :
              /\ ret'.threw = ""
              /\ eng'[i].m_count = Narrow(LimbAdd(Wide(eng[i].m_count), len))
              /\ BlocksOf(ret'.calls, Wide(Zero64)) = LimbDiv(fl, MD.block_bytes)
              /\ LimbLess(fl, Wide(U64(MD.block_bytes))) =>
                    /\ ret'.calls = <<>>
                    /\ eng'[i].m_digest = eng[i].m_digest
                    /\ eng'[i].m_count = LimbAdd(eng[i].m_count, Narrow(len))
      ]_vars

\* An update that completed the buffered block, compressed blocks straight
\* from the input as well, and took the byte counter past 2^64.
C13_Witness ==
    /\ ret.op = "update" /\ ret.inst = 1
    /\ Len(ret.calls) = 2
    /\ aux[1].total[5] > 0
    /\ aux[1].fails = 0

\* The input of the update that is this step, len bytes from where the
\* stream of instance i stood.
InputBytes(i, len) ==
    SpanBytes(InputSpan(LimbMod(aux[i].total, Period), U64(len)))

\* C14: the bulk path.  Once the buffer is empty (from the start, or after
\* the block it held was completed and compressed), the whole blocks of the
\* remaining input, floor(remaining / block_bytes) of them, go to compress_n
\* in one call, straight from the input, and only the tail shorter than a
\* block is put in the buffer; an update calls compress_n at most twice.
\* With the recording stub: the digest state grows by the whole blocks of
\* (buffer, input), the buffer is left with the rest.
C14_BulkPath ==
    [][ret'.op = "update" =>
          \E i \in {ret'.inst} : \E len \in {ToNat(InputLen(i))} :
          \E f \in {Len(eng[i].m_buffer)} : \E bb \in {MD.block_bytes} :
          \E rem \in {IF f = 0 THEN len ELSE len - (bb - f)} :
          \E all \in {eng[i].m_buffer \o InputBytes(i, len)} :
              /\ Len(ret'.calls) <= 2
              /\ ret'.calls =
                    (IF f > 0 /\ rem >= 0
                     THEN <<Call("buffer", U64(1), <<>>)>> ELSE <<>>)
                    \o (IF rem >= bb
                        THEN <<Call("input", U64(rem \div bb), <<>>)>> ELSE <<>>)
              /\ eng'[i].m_digest
                    = eng[i].m_digest \o SubSeq(all, 1, ((f + len) \div bb) * bb)
              /\ eng'[i].m_buffer
                    = SubSeq(all, ((f + len) \div bb) * bb + 1, f + len)
              /\ rem >= 0 => Len(eng'[i].m_buffer) = rem % bb
      ]_vars

\* An update on an empty buffer of MaxBlocks blocks and one byte more: one
\* call, from the input, and the one byte in the buffer.
C14_Witness ==
    /\ ret.op = "update" /\ ret.inst = 1
    /\ ret.calls = <<Call("input", U64(MaxBlocks), <<>>)>>
    /\ Len(eng[1].m_buffer) = 1
    /\ Len(eng[1].m_digest) = MaxBlocks * MD.block_bytes

\* C15: an update with an empty input does nothing, in whatever state the
\* instance is: no call of compress_n, no pass of the loop, and the digest
\* state, the buffer and the byte counter as they were.
C15_EmptyUpdateIsNoOp ==
    [][(ret'.op = "update" /\ ret'.empty) =>
          /\ ret'.threw = ""
          /\ ret'.calls = <<>>
          /\ ret'.iters = 0
          /\ eng'[ret'.inst].m_digest = eng[ret'.inst].m_digest
          /\ eng'[ret'.inst].m_buffer = eng[ret'.inst].m_buffer
          /\ eng'[ret'.inst].m_count = eng[ret'.inst].m_count
          /\ LimbIsZero(InputLen(ret'.inst))
      ]_vars

\* An empty update on an instance with bytes in the buffer, blocks
\* compressed and a failed final behind it.
C15_Witness ==
    /\ ret.op = "update" /\ ret.inst = 1 /\ ret.empty
    /\ Len(eng[1].m_buffer) > 0
    /\ Len(eng[1].m_digest) > 0
    /\ ~LimbIsZero(eng[1].m_count)
    /\ aux[1].fails > 0

\* C16: the loop of update ends, whatever the input length and the buffer
\* fill: no pass leaves the slicer and the buffer as it found them, every
\* pass takes at least one input byte (so there are at most len(input)
\* passes), and at the end no input is left: what was compressed and what
\* is in the buffer are together the f bytes buffered before and the input.
C16_LoopTerminates ==
    [][ret'.op = "update" =>
          \E i \in {ret'.inst} : \E len \in {InputLen(i)} :
          \E blocks \in {BlocksOf(ret'.calls, Wide(Zero64))} :
          \E compressed \in {LimbMul(blocks, MD.block_bytes)} :
              /\ ~ret'.spins
              /\ ret'.idle = 0
              /\ ret'.drained
              /\ ~LimbLess(len, Wide(U64(ret'.iters)))
              /\ ~LimbIsZero(len) => ret'.iters >= 1
              /\ LimbAdd(compressed, Wide(U64(Len(eng'[i].m_buffer))))
                    = FillPlusLen(i, len)
      ]_vars

\* An update of 2^64 - 1 bytes on a buffer one byte short of a block: it
\* ended, having compressed the buffered block and the blocks of the input.
C16_Witness ==
    /\ ret.op = "update" /\ ret.inst = 1
    /\ ret.iters >= 1 /\ ~ret.spins
    /\ Len(ret.calls) = 2
    /\ ret.calls[2].blocks[4] > 0
    /\ Len(eng[1].m_buffer) = MD.block_bytes - 2

\* C17: the length field overwrites neither message bytes nor the marker.
\* When final writes the 8 bytes of the bit count, the buffer had been
\* filled (message bytes and marker) to at most block_bytes - ctr_bytes,
\* hence at most block_bytes - 8, and the 8 bytes written over are zeros
\* that fill_up_with_zeros put there; the block compressed still starts
\* with what the buffer held.
C17_FieldOverZeros ==
    ret.op = "final" =>
        LET bb   == MD.block_bytes
            last == ret.calls[Len(ret.calls)].data
            f    == ret.pre.fill
        IN  /\ ret.cursor \in 0..(bb - MD.ctr_bytes)
            /\ ret.cursor <= bb - 8
            /\ ret.under = Zeros(8)
            /\ ret.cursor = IF Len(ret.calls) = 2 THEN 0 ELSE f + 1
            /\ Len(ret.calls) = 1 =>
                  SubSeq(last, 1, ret.cursor) = Buffered \o <<Marker>>

\* A final with exactly block_bytes - 8 - 1 bytes buffered and ctr_bytes =
\* 8: the marker is the last byte before the field.
C17_Witness ==
    /\ ret.op = "final" /\ ret.threw = ""
    /\ MD.ctr_bytes = 8
    /\ ret.cursor = MD.block_bytes - 8
    /\ ret.pre.fill = MD.block_bytes - 9
    /\ ToNat(ret.pre.total) > MD.block_bytes

\* C18: a final whose output is too short fails only after the padding was
\* appended and compressed.  At the failure the digest state has taken in
\* the padding blocks, the buffer is empty, clear() has not run (the digest
\* state is not the initial one), the byte counter is what it was, and
\* nothing was written to the output: the engine is neither as before the
\* call nor reset.
C18_FailedFinalLeavesPaddedState ==
    [][(ret'.op = "final" /\ Len(ret'.output) < MD.output_bytes) =>
          \E i \in {ret'.inst} :
          \E padded \in {Concat([k \in 1..Len(ret'.calls) |-> ret'.calls[k].data])} :
              /\ ret'.threw = "assert114"
              /\ Len(ret'.calls) \in {1, 2}
              /\ eng'[i].m_digest = eng[i].m_digest \o padded
              /\ eng'[i].m_digest # MD_init(MD)
              /\ eng'[i].m_buffer = <<>>
              /\ eng'[i].m_count = eng[i].m_count
              /\ eng'[i].m_count = Narrow(aux[i].total)
              /\ eng'[i] # eng[i]
              /\ eng'[i] # MerkleDamgard_Hash(MD)
              /\ \A k \in 1..Len(ret'.output) : ret'.output[k] = -1
      ]_vars

\* A final that failed the size check on a message of more than a block
\* whose padding took two blocks.
C18_Witness ==
    /\ ret.op = "final" /\ ret.threw = "assert114"
    /\ Len(ret.calls) = 2
    /\ ToNat(ret.pre.total) > MD.block_bytes
    /\ eng[ret.inst].m_buffer = <<>>
    /\ eng[ret.inst].m_count = ret.pre.count
    /\ Len(eng[ret.inst].m_digest) > ToNat(ret.pre.total)

\* What one call of start or stop does to the event count, by whether the
\* timer was running.
PairedStep ==
    /\ (thist'.op = "stop" /\ timer.m_timer_start = 0) =>
          /\ timer'.m_event_count = timer.m_event_count
          /\ timer'.m_time_used = timer.m_time_used
          /\ timer' = timer
    /\ (thist'.op = "stop" /\ timer.m_timer_start # 0) =>
          /\ timer'.m_event_count = timer.m_event_count + 1
          /\ timer'.m_timer_start = 0
          /\ timer'.m_time_used >= timer.m_time_used
    /\ (thist'.op = "start" /\ timer.m_timer_start # 0) =>
          timer'.m_event_count = timer.m_event_count + 1
    /\ (thist'.op = "start" /\ timer.m_timer_start = 0) =>
          /\ timer'.m_event_count = timer.m_event_count
          /\ timer'.m_time_used = timer.m_time_used

\* C19: start/stop pairing of the Timer.  A stop of a timer that is not
\* running (m_timer_start = 0) changes neither the event count nor the time
\* used; a stop of a running timer adds one to the event count and leaves
\* it not running; a start of a running timer stops it first, which counts
\* one event, a start of a timer not running counts none; so the event
\* count is always the number of intervals that were ended, and the timer
\* is running exactly while an interval is open.
C19_StartStopPairing ==
    /\ [](/\ timer.m_event_count = thist.ended
           /\ (timer.m_timer_start # 0) <=> thist.open)
    /\ [][PairedStep]_vars

\* A timer started while it was running, then stopped: two events.
C19_Witness ==
    /\ thist.op = "stop"
    /\ timer.m_event_count = 2
    /\ timer.m_timer_start = 0
    /\ timer.m_time_used > 0

====
